---- MODULE Spec2Model ----
(***************************************************************************)
(* Model of server.js: an Express application with a CRUD route group over *)
(* the mongoose model User (collection of {_id, name, email} documents),   *)
(* a connection-test route that opens and closes the shared mongoose       *)
(* connection, and a route group that forwards to an S3 client.            *)
(*                                                                         *)
(* Every async handler runs its synchronous prefix when the request        *)
(* arrives (up to its first await) and its continuation when the awaited   *)
(* call settles.  The continuation of a handler reads only the value the   *)
(* awaited call produced and writes only the response and the log, so the  *)
(* external call's effect and the continuation are one step here; the      *)
(* requests that have arrived and not yet settled are the bag `inflight`,  *)
(* and their steps interleave freely.                                      *)
(*                                                                         *)
(* opened, created, touched and removed are history variables: they record *)
(* what has happened (the first connect resolved, what each create was     *)
(* given, which ids were updated or deleted); a response carries a copy of *)
(* them and nothing a handler does depends on them.                        *)
(***************************************************************************)
EXTENDS Integers, FiniteSets, Bags, TLC

\* ---------------------------------------------------------------- bounds
MaxIds == 2          \* number of documents ever created
MaxInflight == 2     \* number of requests awaiting an external call at once

\* ---------------------------------------------------------------- values
Absent == "<absent>"                 \* the key is not in req.body
Empty == ""                          \* the empty string
PostNames == {Absent, Empty, "a", "b"}    \* req.body.name of a create
PostEmails == {Absent, Empty, "a"}        \* req.body.email of a create
PutVals == {Absent, "c"}                  \* a field of the body of an update
BadId == 0                           \* an :id that is no ObjectId
Ids == 1..MaxIds                     \* well-formed ObjectIds
ReqIds == Ids \cup {BadId}
Files == {"none", "other", "broken", "file"}   \* the multipart body of an upload
Buckets == {"b1", "b2"}              \* :bucketName
Keys == {"k1", "k2"}                 \* object keys (file.originalname / :fileName)
UserOps == {"post", "list", "get", "put", "del"}

Null == [id |-> -1, name |-> Absent, email |-> Absent]

VARIABLES
    db,         \* the documents of collection Usuario
    nextId,     \* ObjectId generator state (ids handed out so far + 1)
    conn,       \* mongoose.connection.readyState
    opened,     \* the module-level mongoose.connect has resolved
    objects,    \* the <<bucket, key>> pairs stored in S3
    inflight,   \* bag of requests suspended at an await
    resp,       \* the HTTP response being sent, with what its request did
    created,    \* id -> the {name, email} given to the create that answered 201
    touched,    \* ids an update or delete has modified
    removed     \* ids whose document a delete has removed

vars == <<db, nextId, conn, opened, objects, inflight, resp, created, touched, removed>>

\* ------------------------------------------------------------- requests
Req(op, id, name, email, file, pc) ==
    [op |-> op, id |-> id, name |-> name, email |-> email, file |-> file, pc |-> pc]

Suspend(q) == inflight (+) SetToBag({q})
Settle(q) == inflight (-) SetToBag({q})
Waiting == BagToSet(inflight)
CanSuspend == BagCardinality(inflight) < MaxInflight

\* A response: status and body as sent, the log events the handler emitted
\* (info, err), the external calls it issued, who sent it (the handler or
\* the framework's default error middleware), why the awaited call threw,
\* and what the request found and changed.
Reply(q) ==
    [op |-> q.op, id |-> q.id, name |-> q.name, email |-> q.email, file |-> q.file,
     status |-> 0, body |-> {}, info |-> 0, err |-> 0, calls |-> 0,
     via |-> "handler", cause |-> "none", escaped |-> FALSE,
     before |-> {}, changed |-> FALSE, othersSame |-> TRUE, fresh |-> FALSE,
     given |-> Null, untouched |-> TRUE, removedBefore |-> FALSE]

NoReply == Reply(Req("none", BadId, Absent, Absent, "none", "none"))

\* No response is being written: the event loop is free to run a handler.
Idle == resp = NoReply

IdsOf(d) == {u.id : u \in d}
WithId(d, id) == {u \in d : u.id = id}

\* ------------------------------------------------ mongoose model User
\* `!name` / `!email` of line 65: undefined and "" are falsy.
Falsy(x) == x = Absent \/ x = Empty

\* Mutant of NewId: the id is derived from the number of stored documents.
NewIdCount(n, d) == Cardinality(d) + 1

\* new User({name, email}): the document gets a new ObjectId.
NewId(n, d) == n

\* Mutant of NewUser: the schema path is `nome`, so `name` is dropped.
NewUserNome(id, name, email) == [id |-> id, name |-> Absent, email |-> email]

NewUser(id, name, email) == [id |-> id, name |-> name, email |-> email]

\* user.save(): inserts the document.
Save(d, u) == d \cup {u}

\* User.findById(id): the document or null.
FindById(d, id) == IF WithId(d, id) = {} THEN Null ELSE CHOOSE u \in WithId(d, id) : TRUE

\* Mutant of Merge: the body replaces the document instead of being merged.
MergeReplace(u, name, email) == [id |-> u.id, name |-> name, email |-> email]

\* The update document of findByIdAndUpdate applied to one document: the
\* schema paths present in req.body are set, the others kept.
Merge(u, name, email) ==
    [id |-> u.id,
     name |-> IF name = Absent THEN u.name ELSE name,
     email |-> IF email = Absent THEN u.email ELSE email]

\* Mutant of FindByIdAndUpdate: the call is made with {upsert: true}.
FindByIdAndUpdateUpsert(d, id, name, email) ==
    IF WithId(d, id) = {}
    THEN d \cup {[id |-> id, name |-> name, email |-> email]}
    ELSE {IF u.id = id THEN Merge(u, name, email) ELSE u : u \in d}

\* User.findByIdAndUpdate(id, req.body, {new: true}): the collection after.
FindByIdAndUpdate(d, id, name, email) ==
    {IF u.id = id THEN Merge(u, name, email) ELSE u : u \in d}

\* Mutant of DeleteOne: the filter names a path that matches no document.
DeleteOneNone(d, id) == d

\* User.deleteOne({_id: id}): the collection after.
DeleteOne(d, id) == d \ WithId(d, id)

\* How an awaited model call settles: a malformed id throws a CastError
\* before any command is sent; on an open connection the command succeeds
\* or the store fails; while the connection is not open the command is
\* buffered, and either stays buffered or times out ("closed" when it is
\* mongoose.connection.close() of line 58 that shut the connection).
Outcomes(q) ==
    IF q.op \in {"get", "put", "del"} /\ q.id = BadId THEN {"cast"}
    ELSE IF conn = "connected" THEN {"ok", "fault"}
    ELSE IF conn = "closed" THEN {"closed"}
    ELSE {"timeout"}

Init ==
    /\ db = {}
    /\ nextId = 1
    /\ conn = "connecting"
    /\ opened = FALSE
    /\ objects = {}
    /\ inflight = EmptyBag
    /\ resp = NoReply
    /\ created = [i \in Ids |-> Null]
    /\ touched = {}
    /\ removed = {}

\* ------------------------------------------- mongoose.connect (31-35)
MongooseConnect ==
    /\ Idle
    /\ conn = "connecting"
    /\ \E ok \in BOOLEAN :
        /\ conn' = IF ok THEN "connected" ELSE "disconnected"
        /\ opened' = ok
    /\ UNCHANGED <<db, nextId, objects, inflight, resp, created, touched, removed>>

\* What a request finds when its awaited call settles.
Pre(q) ==
    [Reply(q) EXCEPT
        !.calls = 1,
        !.before = WithId(db, q.id),
        !.given = IF q.id \in Ids THEN created[q.id] ELSE Null,
        !.untouched = q.id \notin touched,
        !.removedBefore = (q.id \in removed)]

\* The catch block of a route: logError, then status 500.
Caught(q, out) == [Pre(q) EXCEPT !.status = 500, !.err = 1, !.cause = out]

\* ------------------------------------------- POST /usuarios (62-78)
\* Mutant of Invalid: the check rejects only when both fields are missing.
InvalidBoth(name, email) == Falsy(name) /\ Falsy(email)

\* The presence check of line 65.
Invalid(name, email) == Falsy(name) \/ Falsy(email)

PostUsuarios(name, email) ==
    /\ Idle
    /\ IF Invalid(name, email)
       THEN /\ resp' = [Reply(Req("post", BadId, name, email, "none", "run"))
                            EXCEPT !.status = 400]
            /\ UNCHANGED <<nextId, inflight>>
       ELSE /\ nextId <= MaxIds
            /\ CanSuspend
            /\ inflight' = Suspend(Req("post", NewId(nextId, db), name, email, "none", "save"))
            /\ nextId' = nextId + 1
            /\ UNCHANGED resp
    /\ UNCHANGED <<db, conn, opened, objects, created, touched, removed>>

PostUsuariosSaved(q) ==
    /\ Idle /\ q \in Waiting /\ q.op = "post"
    /\ \E out \in Outcomes(q) :
        LET user == NewUser(q.id, q.name, q.email) IN
        /\ IF out = "ok"
           THEN /\ db' = Save(db, user)
                /\ created' = [created EXCEPT ![q.id] =
                                  [id |-> q.id, name |-> q.name, email |-> q.email]]
                /\ resp' = [Pre(q) EXCEPT
                                !.status = 201, !.body = {user}, !.info = 1,
                                !.changed = (db' # db),
                                !.othersSame = (db \subseteq db'),
                                !.fresh = (created[q.id] = Null /\ q.id \notin IdsOf(db))]
           ELSE /\ resp' = Caught(q, out)
                /\ UNCHANGED <<db, created>>
    /\ inflight' = Settle(q)
    /\ UNCHANGED <<nextId, conn, opened, objects, touched, removed>>

\* ------------------------------------------- GET /usuarios (80-89)
GetUsuarios ==
    /\ Idle /\ CanSuspend
    /\ inflight' = Suspend(Req("list", BadId, Absent, Absent, "none", "find"))
    /\ UNCHANGED <<db, nextId, conn, opened, objects, resp, created, touched, removed>>

GetUsuariosFound(q) ==
    /\ Idle /\ q \in Waiting /\ q.op = "list"
    /\ \E out \in Outcomes(q) :
        /\ resp' = IF out = "ok"
                   THEN [Pre(q) EXCEPT !.status = 200, !.body = db, !.info = 1]
                   ELSE Caught(q, out)
    /\ inflight' = Settle(q)
    /\ UNCHANGED <<db, nextId, conn, opened, objects, created, touched, removed>>

\* ------------------------------------------- GET /usuarios/:id (91-102)
\* Lines 94-97: null answers 404 without a log event, a document answers
\* 200 after logInfo.
GetUsuariosIdReply(r, user) ==
    IF user = Null
    THEN [r EXCEPT !.status = 404]
    ELSE [r EXCEPT !.status = 200, !.body = {user}, !.info = 1]

GetUsuariosId(id) ==
    /\ Idle /\ CanSuspend
    /\ inflight' = Suspend(Req("get", id, Absent, Absent, "none", "find"))
    /\ UNCHANGED <<db, nextId, conn, opened, objects, resp, created, touched, removed>>

GetUsuariosIdFound(q) ==
    /\ Idle /\ q \in Waiting /\ q.op = "get"
    /\ \E out \in Outcomes(q) :
        /\ resp' = IF out = "ok"
                   THEN GetUsuariosIdReply(Pre(q), FindById(db, q.id))
                   ELSE Caught(q, out)
    /\ inflight' = Settle(q)
    /\ UNCHANGED <<db, nextId, conn, opened, objects, created, touched, removed>>

\* ------------------------------------------- PUT /usuarios/:id (104-115)
PutUsuariosId(id, name, email) ==
    /\ Idle /\ CanSuspend
    /\ inflight' = Suspend(Req("put", id, name, email, "none", "update"))
    /\ UNCHANGED <<db, nextId, conn, opened, objects, resp, created, touched, removed>>

PutUsuariosIdUpdated(q) ==
    /\ Idle /\ q \in Waiting /\ q.op = "put"
    /\ \E out \in Outcomes(q) :
        /\ IF out = "ok"
           THEN LET user == FindById(db', q.id) IN
                /\ db' = FindByIdAndUpdate(db, q.id, q.name, q.email)
                /\ touched' = IF db' # db THEN touched \cup {q.id} ELSE touched
                /\ resp' = IF user = Null
                           THEN [Pre(q) EXCEPT !.status = 404,
                                               !.changed = (db' # db),
                                               !.othersSame = (db' \ WithId(db', q.id)
                                                               = db \ WithId(db, q.id))]
                           ELSE [Pre(q) EXCEPT !.status = 200, !.body = {user}, !.info = 1,
                                               !.changed = (db' # db),
                                               !.othersSame = (db' \ WithId(db', q.id)
                                                               = db \ WithId(db, q.id))]
           ELSE /\ resp' = Caught(q, out)
                /\ UNCHANGED <<db, touched>>
    /\ inflight' = Settle(q)
    /\ UNCHANGED <<nextId, conn, opened, objects, created, removed>>

\* ------------------------------------------- DELETE /usuarios/:id (117-130)
DeleteUsuariosId(id) ==
    /\ Idle /\ CanSuspend
    /\ inflight' = Suspend(Req("del", id, Absent, Absent, "none", "delete"))
    /\ UNCHANGED <<db, nextId, conn, opened, objects, resp, created, touched, removed>>

DeleteUsuariosIdDeleted(q) ==
    /\ Idle /\ q \in Waiting /\ q.op = "del"
    /\ \E out \in Outcomes(q) :
        /\ IF out = "ok"
           THEN LET deletedCount == Cardinality(db) - Cardinality(db') IN
                /\ db' = DeleteOne(db, q.id)
                /\ touched' = IF db' # db THEN touched \cup {q.id} ELSE touched
                /\ removed' = IF deletedCount # 0 THEN removed \cup {q.id} ELSE removed
                /\ resp' = IF deletedCount = 0
                           THEN [Pre(q) EXCEPT !.status = 404,
                                               !.changed = (db' # db)]
                           ELSE [Pre(q) EXCEPT !.status = 200, !.info = 1,
                                               !.changed = (db' # db),
                                               !.othersSame = (db' \ WithId(db', q.id)
                                                               = db \ WithId(db, q.id))]
           ELSE /\ resp' = Caught(q, out)
                /\ UNCHANGED <<db, touched, removed>>
    /\ inflight' = Settle(q)
    /\ UNCHANGED <<nextId, conn, opened, objects, created>>

\* ------------------------------------------- GET /mongodb/testar-conexao (44-60)
TestarConexao ==
    /\ Idle /\ CanSuspend
    /\ inflight' = Suspend(Req("testconn", BadId, Absent, Absent, "none", "connect"))
    /\ UNCHANGED <<db, nextId, conn, opened, objects, resp, created, touched, removed>>

\* await mongoose.connect(...) settles (line 46).  It resolves at once on an
\* open connection, waits for a pending first attempt, and otherwise opens
\* the shared connection again or throws; the catch block answers 500 and
\* finally closes the connection that never opened.
TestarConexaoConnected(q) ==
    /\ Idle /\ q \in Waiting /\ q.op = "testconn" /\ q.pc = "connect"
    /\ conn # "connecting"
    /\ \E ok \in BOOLEAN :
        /\ conn = "connected" => ok
        /\ IF ok
           THEN /\ conn' = "connected"
                /\ inflight' = Settle(q) (+) SetToBag({[q EXCEPT !.pc = "find"]})
                /\ UNCHANGED resp
           ELSE /\ conn' = "disconnected"
                /\ inflight' = Settle(q)
                /\ resp' = [Reply(q) EXCEPT !.status = 500, !.err = 1, !.calls = 1,
                                            !.cause = "fault"]
    /\ UNCHANGED <<db, nextId, opened, objects, created, touched, removed>>

\* await User.findOne() settles (line 47), the response is sent, and the
\* finally block calls mongoose.connection.close() without awaiting it: the
\* shared connection is shut, and a rejection of close() has no handler.
TestarConexaoFound(q) ==
    /\ Idle /\ q \in Waiting /\ q.op = "testconn" /\ q.pc = "find"
    /\ \E out \in Outcomes(q), rejects \in BOOLEAN :
        /\ rejects => conn = "connected"
        /\ resp' = IF out = "ok"
                   THEN [Reply(q) EXCEPT !.status = 200, !.info = 1, !.calls = 2,
                                         !.escaped = rejects]
                   ELSE [Reply(q) EXCEPT !.status = 500, !.err = 1, !.calls = 2,
                                         !.cause = out, !.escaped = rejects]
    /\ conn' = "closed"
    /\ inflight' = Settle(q)
    /\ UNCHANGED <<db, nextId, opened, objects, created, touched, removed>>

\* ------------------------------------------- GET /buckets (142-151)
GetBuckets ==
    /\ Idle /\ CanSuspend
    /\ inflight' = Suspend(Req("buckets", BadId, Absent, Absent, "none", "list"))
    /\ UNCHANGED <<db, nextId, conn, opened, objects, resp, created, touched, removed>>

\* An awaited S3 call resolves or rejects.
S3Outcomes == {"ok", "fault"}

\* The catch block of a bucket route: logError, then status 500.
S3Caught(q, out) == [Reply(q) EXCEPT !.status = 500, !.err = 1, !.calls = 1, !.cause = out]

GetBucketsListed(q) ==
    /\ Idle /\ q \in Waiting /\ q.op = "buckets"
    /\ \E out \in S3Outcomes :
        resp' = IF out = "ok"
                THEN [Reply(q) EXCEPT !.status = 200, !.info = 1, !.calls = 1]
                ELSE S3Caught(q, out)
    /\ inflight' = Settle(q)
    /\ UNCHANGED <<db, nextId, conn, opened, objects, created, touched, removed>>

\* ------------------------------------------- GET /buckets/:bucketName (153-165)
GetBucketObjects(b) ==
    /\ Idle /\ CanSuspend
    /\ inflight' = Suspend(Req("objects", BadId, b, Absent, "none", "list"))
    /\ UNCHANGED <<db, nextId, conn, opened, objects, resp, created, touched, removed>>

GetBucketObjectsListed(q) ==
    /\ Idle /\ q \in Waiting /\ q.op = "objects"
    /\ \E out \in S3Outcomes :
        resp' = IF out = "ok"
                THEN [Reply(q) EXCEPT !.status = 200, !.info = 1, !.calls = 1,
                          !.body = {NewUser(BadId, o[1], o[2]) : o \in {x \in objects : x[1] = q.name}}]
                ELSE S3Caught(q, out)
    /\ inflight' = Settle(q)
    /\ UNCHANGED <<db, nextId, conn, opened, objects, created, touched, removed>>

\* ------------------------------------------- POST /buckets/:bucketName/upload (167-189)
\* upload.single('file') runs before the handler: a body without file part
\* leaves req.file undefined, a file part named `file` becomes req.file, and
\* a file part under another name or a malformed multipart body is an error
\* handed to next(err).
MulterRejects(file) == file \in {"other", "broken"}

\* `!file` of line 171.
NoFile(file) == file = "none"

PostBucketUpload(b, file, key) ==
    /\ Idle
    /\ LET q == Req("upload", BadId, b, key, file, "upload") IN
       IF MulterRejects(file)
       THEN /\ resp' = [Reply(q) EXCEPT !.status = 500, !.via = "framework",
                                        !.cause = "multer"]
            /\ UNCHANGED inflight
       ELSE IF NoFile(file)
       THEN /\ resp' = [Reply(q) EXCEPT !.status = 400]
            /\ UNCHANGED inflight
       ELSE /\ CanSuspend
            /\ inflight' = Suspend(q)
            /\ UNCHANGED resp
    /\ UNCHANGED <<db, nextId, conn, opened, objects, created, touched, removed>>

\* s3.upload(params): the object of that key is created or overwritten.
PostBucketUploadDone(q) ==
    /\ Idle /\ q \in Waiting /\ q.op = "upload"
    /\ \E out \in S3Outcomes :
        /\ objects' = IF out = "ok" THEN objects \cup {<<q.name, q.email>>} ELSE objects
        /\ resp' = IF out = "ok"
                   THEN [Reply(q) EXCEPT !.status = 200, !.info = 1, !.calls = 1,
                                         !.changed = (objects' # objects)]
                   ELSE S3Caught(q, out)
    /\ inflight' = Settle(q)
    /\ UNCHANGED <<db, nextId, conn, opened, created, touched, removed>>

\* ------------------------------------------- DELETE /buckets/:bucketName/file/:fileName (191-206)
DeleteBucketFile(b, key) ==
    /\ Idle /\ CanSuspend
    /\ inflight' = Suspend(Req("delobj", BadId, b, key, "none", "delete"))
    /\ UNCHANGED <<db, nextId, conn, opened, objects, resp, created, touched, removed>>

\* s3.deleteObject(params): succeeds whether or not the key exists.
DeleteBucketFileDone(q) ==
    /\ Idle /\ q \in Waiting /\ q.op = "delobj"
    /\ \E out \in S3Outcomes :
        /\ objects' = IF out = "ok" THEN objects \ {<<q.name, q.email>>} ELSE objects
        /\ resp' = IF out = "ok"
                   THEN [Reply(q) EXCEPT !.status = 200, !.info = 1, !.calls = 1,
                                         !.changed = (objects' # objects)]
                   ELSE S3Caught(q, out)
    /\ inflight' = Settle(q)
    /\ UNCHANGED <<db, nextId, conn, opened, created, touched, removed>>

\* ------------------------------------------- res.send / res.json
\* The response leaves the process.  A handler writes its response in the
\* turn of the event loop in which it runs, so no other handler runs between
\* the writing of a response and its departure.
Sent ==
    /\ ~Idle
    /\ resp' = NoReply
    /\ UNCHANGED <<db, nextId, conn, opened, objects, inflight, created, touched, removed>>

Next ==
    \/ Sent
    \/ MongooseConnect
    \/ \E name \in PostNames, email \in PostEmails : PostUsuarios(name, email)
    \/ \E q \in Waiting : PostUsuariosSaved(q)
    \/ GetUsuarios
    \/ \E q \in Waiting : GetUsuariosFound(q)
    \/ \E id \in ReqIds : GetUsuariosId(id)
    \/ \E q \in Waiting : GetUsuariosIdFound(q)
    \/ \E id \in ReqIds, name \in PutVals, email \in PutVals : PutUsuariosId(id, name, email)
    \/ \E q \in Waiting : PutUsuariosIdUpdated(q)
    \/ \E id \in ReqIds : DeleteUsuariosId(id)
    \/ \E q \in Waiting : DeleteUsuariosIdDeleted(q)
    \/ TestarConexao
    \/ \E q \in Waiting : TestarConexaoConnected(q)
    \/ \E q \in Waiting : TestarConexaoFound(q)

\* The bucket routes share no state with the user routes (the S3 client on
\* one side, the mongoose connection and collection on the other): they
\* form a specification of their own.
NextBuckets ==
    \/ Sent
    \/ GetBuckets
    \/ \E q \in Waiting : GetBucketsListed(q)
    \/ \E b \in Buckets : GetBucketObjects(b)
    \/ \E q \in Waiting : GetBucketObjectsListed(q)
    \/ \E b \in Buckets, file \in Files, key \in Keys : PostBucketUpload(b, file, key)
    \/ \E q \in Waiting : PostBucketUploadDone(q)
    \/ \E b \in Buckets, key \in Keys : DeleteBucketFile(b, key)
    \/ \E q \in Waiting : DeleteBucketFileDone(q)

Spec == Init /\ [][Next]_vars

SpecBuckets == Init /\ [][NextBuckets]_vars

\* ================================================================ claims
\* A field of a request body that is present and non-empty.
Given(x) == x # Absent /\ x # Empty

UniqueIds == \A u, v \in db : u.id = v.id => u = v

Asked == [id |-> resp.id, name |-> resp.name, email |-> resp.email]

\* C1 as stated: a create whose name and email are both present and
\* non-empty always answers 201.
C1_AlwaysCreated ==
    (resp.op = "post" /\ Given(resp.name) /\ Given(resp.email)) => resp.status = 201

\* C1 amended: a create whose name and email are both present and non-empty
\* answers 201 with the created record when user.save() succeeds and 500 with
\* nothing stored when it throws; the id of a created record is held by no
\* record that is or ever was in the collection, and no two records share an
\* id, whatever the order in which overlapping creates are saved.
C1_CreateFresh ==
    /\ UniqueIds
    /\ (resp.op = "post" /\ Given(resp.name) /\ Given(resp.email)) =>
        /\ resp.status \in {201, 500}
        /\ resp.status = 201 <=> resp.cause = "none"
        /\ resp.status = 201 =>
            /\ resp.body = {Asked}
            /\ resp.fresh
            /\ Asked \in db
            /\ resp.othersSame
        /\ resp.status = 500 => ~resp.changed

\* Two creates overlapped: the one that arrived first is saved second.
C1_Witness ==
    /\ resp.op = "post" /\ resp.status = 201 /\ resp.id = 1
    /\ 2 \in IdsOf(db)

\* C2: a create whose name or email is missing or empty answers 400, issues
\* no store call and leaves the collection as it was.
C2_InvalidCreate ==
    (resp.op = "post" /\ ~(Given(resp.name) /\ Given(resp.email))) =>
        /\ resp.status = 400
        /\ resp.calls = 0
        /\ ~resp.changed
        /\ resp.id \notin IdsOf(db)

C2_Witness ==
    /\ resp.op = "post" /\ resp.status = 400
    /\ resp.name = "a" /\ resp.email = Empty
    /\ db # {}

\* A get-by-id of an id a create returned, that no update or delete has
\* modified since.
ReadBack == resp.op = "get" /\ resp.given # Null /\ resp.untouched

\* C3 as stated: such a get always answers 200 with the name and email
\* given to the create.
C3_AlwaysReadBack ==
    ReadBack => /\ resp.status = 200
                /\ resp.body = {resp.given}

\* C3 amended: such a get answers 200 with the name and email given to the
\* create when User.findById() succeeds, and 500 when it throws.
C3_ReadBack ==
    ReadBack => /\ resp.cause = "none" => /\ resp.status = 200
                                         /\ resp.body = {resp.given}
                /\ resp.cause # "none" => resp.status = 500

C3_Witness ==
    /\ ReadBack /\ resp.status = 200
    /\ resp.given.name = "b"

\* C4 as stated: the first delete of an existing record answers 200 and a
\* delete after it answers 404.
C4_AlwaysDeleted ==
    resp.op = "del" =>
        /\ resp.before # {} => resp.status = 200
        /\ resp.removedBefore => resp.status = 404

\* C4 amended: when User.deleteOne() succeeds, the delete of an existing
\* record answers 200 and removes that record and no other, and a delete of
\* an id whose record a delete has already removed answers 404 and removes
\* nothing, so a record is removed once; when the call throws, the delete
\* answers 500 and removes nothing.
C4_DeleteTwice ==
    resp.op = "del" =>
        /\ (resp.cause = "none" /\ resp.before # {}) =>
            /\ resp.status = 200
            /\ resp.id \notin IdsOf(db)
            /\ resp.othersSame
            /\ ~resp.removedBefore
        /\ (resp.cause = "none" /\ resp.removedBefore) =>
            /\ resp.status = 404
            /\ ~resp.changed
        /\ resp.cause # "none" => resp.status = 500 /\ ~resp.changed
        /\ resp.status = 200 => resp.id \in removed

C4_Witness ==
    /\ resp.op = "del" /\ resp.status = 404 /\ resp.removedBefore
    /\ db # {}

\* C5: an update of an existing record whose body holds only a name changes
\* the name of that record and nothing else: its id and email stay, every
\* other record stays, and the 200 response carries the merged record.
C5_UpdateName ==
    (resp.op = "put" /\ resp.name # Absent /\ resp.email = Absent /\ resp.before # {}) =>
        /\ resp.othersSame
        /\ resp.status \in {200, 500}
        /\ resp.status = 200 =>
            \A old \in resp.before :
                /\ resp.body = {[id |-> resp.id, name |-> resp.name, email |-> old.email]}
                /\ WithId(db, resp.id) = resp.body
        /\ resp.status = 500 => ~resp.changed

C5_Witness ==
    /\ resp.op = "put" /\ resp.status = 200
    /\ resp.name = "c" /\ resp.email = Absent
    /\ \E old \in resp.before : old.name # "c" /\ old.email = "a"
    /\ Cardinality(db) = 2

\* C6: an upload without a file in field `file` answers 400, issues no call
\* to S3 and changes no bucket.
C6_NoFileRejected ==
    (resp.op = "upload" /\ resp.file # "file") =>
        /\ resp.status = 400
        /\ resp.calls = 0
        /\ ~resp.changed

\* C7: no user-resource request is failed or blocked by another request's
\* handler: none is answered 500 because GET /mongodb/testar-conexao closed
\* the shared connection, and none waits on a connection that route closed.
C7_Independent ==
    opened =>
        /\ resp.op \in UserOps => resp.cause # "closed"
        /\ conn = "closed" => \A q \in Waiting : q.op \notin UserOps

\* C8: every error raised while a request is processed is answered by the
\* route's own handler after an error event is logged, and none escapes.
C8_AllCaught ==
    /\ ~resp.escaped
    /\ resp.cause # "none" => /\ resp.via = "handler"
                              /\ resp.err = 1
                              /\ resp.status \in {400, 404, 500}

Success == resp.status \in {200, 201}

\* C9: every answered user-resource request has emitted exactly one log
\* event, informational on 2xx and error on 400, 404 and 500.
C9_OneLogEvent ==
    (resp.op \in UserOps) =>
        /\ resp.info + resp.err = 1
        /\ Success <=> resp.info = 1

\* C10: a get, update or delete by an id that references no record, whose
\* store call does not throw, answers 404 and leaves the collection as it
\* was; in particular a get of an id whose record a delete has removed
\* answers 404.
C10_NotFound ==
    (resp.op \in {"get", "put", "del"} /\ resp.cause = "none") =>
        /\ resp.before = {} => resp.status = 404 /\ ~resp.changed
        /\ (resp.op = "get" /\ resp.removedBefore) => resp.status = 404

C10_Witness ==
    /\ resp.op = "get" /\ resp.status = 404 /\ resp.removedBefore
    /\ resp.given # Null
====
